---- MODULE Spec2Model ----
(***************************************************************************)
(* Audit-log poller: the poll loop (runner.py), the dedup/resume engine    *)
(* (processor.py), the state store (state.py), the auth provider (auth.py) *)
(* and the log source / event sink seen at their interface.                *)
(*                                                                         *)
(* Spec      the whole program: main() -> PollingRunner.run(), against an  *)
(*           append-only paged source, with process kills and restarts.    *)
(* FairSpec  Spec with the scheduling of the single cooperative loop.      *)
(* UnitSpec  EventProcessor alone, driven with arbitrary batches.          *)
(***************************************************************************)
EXTENDS Integers, Sequences, FiniteSets

VARIABLES
    srcLen,        \* log source: number of events it holds (append-only)
    srcEager,      \* log source: a full last page already carries next_cursor
    liveToken,     \* auth server: the token it accepts (0: none)
    issued,        \* auth server: number of tokens issued so far
    token,         \* AuthClient._token (0 is the empty string)
    tokenFile,     \* token.txt
    pc,            \* position of the process
    cursor,        \* PollingRunner.run local `cursor` (0 is None)
    response,      \* PollingRunner.run local `response`
    state,         \* EventProcessor._state
    needs_dedup,   \* EventProcessor._needs_dedup
    stateFile,     \* last_event.txt: <<>> missing or empty, <<s>> holding s
    events,        \* process_batch argument `events`
    batchCursor,   \* process_batch argument `cursor`
    new_events,    \* the batch process_batch hands to add_events
    result,        \* ProcessResult of the last call: <<>> none, <<r>>
    saverClosed,   \* number of close() calls on the saver of this process
    pre,           \* history: engine and store at entry of process_batch
    sinkCalls,     \* history: add_events calls made by the current call
    lastFlagCall,  \* history: last of reset_/enable_deduplication called
    authCall,      \* history: the AuthClient call made since the last fetch
    delivered,     \* history: events the sink accepted, ever
    deliveredRun,  \* history: events the sink accepted since the last start
    recorded,      \* history: events of batches whose marker was persisted
    crashBatch,    \* history: batch delivered but unrecorded at termination
    storeWritten,  \* history: save_state ran since this engine was built
    sends,         \* history: the send() calls of the last add_events call
                   \* of this process
    failedSends,   \* history: the send() calls of the last add_events call
                   \* that raised, until a call delivers an event of its
                   \* batch
    skipped,       \* history: events of pages this process advanced past
                   \* after a scan that did not find the marker
    restarts       \* history: number of process starts after the first

vars == <<srcLen, srcEager, liveToken, issued, token, tokenFile, pc, cursor,
          response, state, needs_dedup, stateFile, events, batchCursor,
          new_events, result, saverClosed, sends, failedSends,
          pre, sinkCalls, lastFlagCall,
          authCall, delivered, deliveredRun, recorded, crashBatch,
          storeWritten, restarts, skipped>>

srcVars == <<srcLen, srcEager>>
tokenVars == <<liveToken, issued, token, tokenFile>>
authVars == <<tokenVars, authCall>>
engineVars == <<state, needs_dedup, stateFile>>
callVars == <<events, batchCursor, new_events, result, pre, sinkCalls>>
histVars == <<delivered, deliveredRun, recorded, crashBatch, storeWritten>>

-----------------------------------------------------------------------------
(* Bounds *)
MaxEvents == 5
PageSize == 2
MaxTokens == 2
MaxRestarts == 2
MaxBatch == 3

None == 0

-----------------------------------------------------------------------------
(* Data *)

Range(s) == {s[i] : i \in 1..Len(s)}

Min(a, b) == IF a < b THEN a ELSE b

\* state.py: EventState()
EmptyState == [event_id |-> None, event_saved_time |-> None, cursor |-> None]

\* state.py: EventState.is_resumable
IsResumable(st) == st.event_id # None /\ st.event_saved_time # None

\* state.py: StateManager.get_state: a missing or empty file is EventState()
GetState(file) == IF file = <<>> THEN EmptyState ELSE file[1]

\* The i-th event of the source. event_id alone repeats; the composite key
\* (event_id, event_saved_time) is unique.
SourceEvent(i) ==
    [event_id |-> ((i - 1) % 2) + 1, event_saved_time |-> ((i + 1) \div 2)]

\* The page the source serves for a cursor when it holds n events.
PageEvents(c, n) ==
    [j \in 1..(Min((c + 1) * PageSize, n) - Min(c * PageSize, n))
        |-> SourceEvent(c * PageSize + j)]

PageNextCursor(c, n, eager) ==
    IF n > (c + 1) * PageSize \/ (eager /\ n = (c + 1) * PageSize)
    THEN c + 1 ELSE None

\* client.py: AuditLogsResponse
FetchPage(c, n, eager) ==
    [events |-> PageEvents(c, n), next_cursor |-> PageNextCursor(c, n, eager)]

NoResponse == [events |-> <<>>, next_cursor |-> None]

\* processor.py: ProcessResult
ProcessResult(n, found) == <<[saved_count |-> n, found_last_event |-> found]>>

-----------------------------------------------------------------------------
(* processor.py: the pure parts of EventProcessor *)

\* Variant: the marker is compared by event_id alone.
MatchesLastEventIdOnly(st, e) == e.event_id = st.event_id

\* EventProcessor._matches_last_event
MatchesLastEvent(st, e) ==
    e.event_id = st.event_id /\ e.event_saved_time = st.event_saved_time

\* EventProcessor._process_with_dedup: index of the first event of the batch
\* that matches the marker, 0 when the loop runs out
FirstMatch(st, evs) ==
    IF \E i \in 1..Len(evs) : MatchesLastEvent(st, evs[i])
    THEN CHOOSE i \in 1..Len(evs) :
            /\ MatchesLastEvent(st, evs[i])
            /\ \A j \in 1..(i - 1) : ~MatchesLastEvent(st, evs[j])
    ELSE 0

\* Variant: the slice starts at the matching event.
NewEventsFromMatch(evs, i) == SubSeq(evs, i, Len(evs))

\* EventProcessor._process_with_dedup: events[i + 1:] (i counted from 1 here)
NewEvents(evs, i) == SubSeq(evs, i + 1, Len(evs))

\* Variant: the cursor stored is the one after the cursor given.
NewStateNextCursor(last_event, c) ==
    [event_id |-> last_event.event_id,
     event_saved_time |-> last_event.event_saved_time,
     cursor |-> c + 1]

\* EventProcessor._update_state: the EventState it builds
NewState(last_event, c) ==
    [event_id |-> last_event.event_id,
     event_saved_time |-> last_event.event_saved_time,
     cursor |-> c]

Snapshot == [state |-> state, stateFile |-> stateFile, needs_dedup |-> needs_dedup]

-----------------------------------------------------------------------------
(* processor.py: EventProcessor.process_batch, one step per suspension or  *)
(* store access                                                            *)

Enter ==
    /\ pc = "process"
    /\ pre' = Snapshot
    /\ sinkCalls' = <<>>

\* Variant: an empty batch still stores the cursor it came with.
ProcessEmptySavesCursor ==
    /\ Enter
    /\ events = <<>>
    /\ state' = [state EXCEPT !.cursor = batchCursor]
    /\ stateFile' = <<state'>>
    /\ result' = ProcessResult(0, TRUE)
    /\ pc' = "returned"
    /\ UNCHANGED <<srcVars, authVars, cursor, response, needs_dedup, events,
                   batchCursor, new_events, saverClosed, sends, failedSends,
                   lastFlagCall,
                   histVars, restarts, skipped>>

\* process_batch: `if not events`
ProcessEmpty ==
    /\ Enter
    /\ events = <<>>
    /\ result' = ProcessResult(0, TRUE)
    /\ pc' = "returned"
    /\ UNCHANGED <<srcVars, authVars, cursor, response, engineVars, events,
                   batchCursor, new_events, saverClosed, sends, failedSends,
                   lastFlagCall,
                   histVars, restarts, skipped>>

\* process_batch: `if not self._needs_dedup`, up to the add_events call
ProcessSaveAll ==
    /\ Enter
    /\ events # <<>>
    /\ ~needs_dedup
    /\ new_events' = events
    /\ pc' = "deliver"
    /\ UNCHANGED <<srcVars, authVars, cursor, response, engineVars, events,
                   batchCursor, result, saverClosed, sends, failedSends,
                   lastFlagCall,
                   histVars, restarts, skipped>>

\* _process_with_dedup: the marker is found before the last position
ProcessDedupFound ==
    /\ Enter
    /\ events # <<>>
    /\ needs_dedup
    /\ FirstMatch(state, events) \in 1..(Len(events) - 1)
    /\ new_events' = NewEvents(events, FirstMatch(state, events))
    /\ pc' = "deliver"
    /\ UNCHANGED <<srcVars, authVars, cursor, response, engineVars, events,
                   batchCursor, result, saverClosed, sends, failedSends,
                   lastFlagCall,
                   histVars, restarts, skipped>>

\* _process_with_dedup: the marker is found at the last position
ProcessDedupAtEnd ==
    /\ Enter
    /\ events # <<>>
    /\ needs_dedup
    /\ FirstMatch(state, events) = Len(events)
    /\ result' = ProcessResult(0, TRUE)
    /\ pc' = "returned"
    /\ UNCHANGED <<srcVars, authVars, cursor, response, engineVars, events,
                   batchCursor, new_events, saverClosed, sends, failedSends,
                   lastFlagCall,
                   histVars, restarts, skipped>>

\* Variant: when the marker is not found the whole batch counts as new.
ProcessDedupNotFoundSavesAll ==
    /\ Enter
    /\ events # <<>>
    /\ needs_dedup
    /\ FirstMatch(state, events) = 0
    /\ new_events' = events
    /\ pc' = "deliver"
    /\ UNCHANGED <<srcVars, authVars, cursor, response, engineVars, events,
                   batchCursor, result, saverClosed, sends, failedSends,
                   lastFlagCall,
                   histVars, restarts, skipped>>

\* _process_with_dedup: the loop ends without a match
ProcessDedupNotFound ==
    /\ Enter
    /\ events # <<>>
    /\ needs_dedup
    /\ FirstMatch(state, events) = 0
    /\ result' = ProcessResult(0, FALSE)
    /\ pc' = "returned"
    /\ UNCHANGED <<srcVars, authVars, cursor, response, engineVars, events,
                   batchCursor, new_events, saverClosed, sends, failedSends,
                   lastFlagCall,
                   histVars, restarts, skipped>>

\* Variant: the send loop of add_events stops at the first failed send.
SendResultsStopAtFailure(evs, acc) ==
    LET failed == {j \in 1..Len(evs) : j \notin acc}
        n == IF failed = {} THEN Len(evs)
             ELSE CHOOSE j \in failed : \A k \in failed : j <= k
    IN  [j \in 1..n |-> [event |-> evs[j], ok |-> j \in acc]]

\* SyslogSaver.add_events / HttpSaver.add_events: `for event in events`
\* calls send(event) for every event, in order; acc is the set of positions
\* whose send returns True
SendResults(evs, acc) ==
    [j \in 1..Len(evs) |-> [event |-> evs[j], ok |-> j \in acc]]

\* savers.py: add_events accepts every event and returns
AddEventsOk ==
    /\ pc = "deliver"
    /\ sends' = SendResults(new_events, 1..Len(new_events))
    /\ failedSends' = IF \E j \in 1..Len(failedSends) :
                             failedSends[j].event \in Range(new_events)
                       THEN <<>>
                       ELSE failedSends
    /\ sinkCalls' = Append(sinkCalls, [events |-> new_events, ok |-> TRUE])
    /\ delivered' = delivered \cup Range(new_events)
    /\ deliveredRun' = deliveredRun \cup Range(new_events)
    /\ pc' = "update"
    /\ UNCHANGED <<srcVars, authVars, cursor, response, engineVars, events,
                   batchCursor, new_events, result, saverClosed, pre,
                   lastFlagCall, recorded, crashBatch, storeWritten,
                   restarts, skipped>>

\* Variant: the marker is updated and saved although add_events raised.
AddEventsRaisesAfterUpdate ==
    /\ pc' = "raised"
    /\ state' = NewState(events[Len(events)], batchCursor)
    /\ stateFile' = <<state'>>
    /\ UNCHANGED needs_dedup

\* process_batch: add_events raised, so _update_state is not reached and the
\* exception leaves process_batch
AddEventsRaises ==
    /\ pc' = "raised"
    /\ UNCHANGED engineVars

\* savers.py: add_events raises. SyslogSaver and HttpSaver try every event
\* and raise when one failed, so any proper subset may have been accepted;
\* FileSaver raises with nothing accepted (the empty subset).
AddEventsFail ==
    /\ pc = "deliver"
    /\ \E acc \in SUBSET (1..Len(new_events)) :
        /\ acc # 1..Len(new_events)
        /\ sends' = SendResults(new_events, acc)
        /\ failedSends' = SendResults(new_events, acc)
        /\ delivered' = delivered \cup {new_events[j] : j \in acc}
        /\ deliveredRun' = deliveredRun \cup {new_events[j] : j \in acc}
    /\ sinkCalls' = Append(sinkCalls, [events |-> new_events, ok |-> FALSE])
    /\ AddEventsRaises
    /\ UNCHANGED <<srcVars, authVars, cursor, response, events, batchCursor,
                   new_events, result, saverClosed, pre, lastFlagCall,
                   recorded, crashBatch, storeWritten, restarts, skipped>>

\* Variant: the cursor stored is the page's next_cursor when it has one.
UpdateStateNextCursor ==
    /\ pc = "update"
    /\ state' = NewState(events[Len(events)],
                         IF response.next_cursor # None
                         THEN response.next_cursor ELSE batchCursor)
    /\ pc' = "save_open"
    /\ UNCHANGED <<srcVars, authVars, cursor, response, needs_dedup, stateFile,
                   callVars, saverClosed, sends, failedSends, lastFlagCall,
                   histVars, restarts, skipped>>

\* _update_state: self._state = EventState(...)
UpdateState ==
    /\ pc = "update"
    /\ state' = NewState(events[Len(events)], batchCursor)
    /\ pc' = "save_open"
    /\ UNCHANGED <<srcVars, authVars, cursor, response, needs_dedup, stateFile,
                   callVars, saverClosed, sends, failedSends,
                   lastFlagCall, histVars,
                   restarts, skipped>>

\* StateManager.save_state: open(self.state_file, "w") truncates the file
SaveStateOpen ==
    /\ pc = "save_open"
    /\ stateFile' = <<>>
    /\ storeWritten' = TRUE
    /\ pc' = "save_dump"
    /\ UNCHANGED <<srcVars, authVars, cursor, response, state, needs_dedup,
                   callVars, saverClosed, sends, failedSends,
                   lastFlagCall, delivered,
                   deliveredRun, recorded, crashBatch, restarts, skipped>>

\* Variant: save_state writes the marker without the cursor.
SaveStateDumpNoCursor ==
    /\ pc = "save_dump"
    /\ stateFile' = <<[state EXCEPT !.cursor = None]>>
    /\ recorded' = recorded \cup Range(new_events)
    /\ result' = ProcessResult(Len(new_events), TRUE)
    /\ pc' = "returned"
    /\ UNCHANGED <<srcVars, authVars, cursor, response, state, needs_dedup,
                   events, batchCursor, new_events, saverClosed, sends, failedSends,
                   pre, sinkCalls,
                   lastFlagCall, delivered, deliveredRun, crashBatch,
                   storeWritten, restarts, skipped>>

\* StateManager.save_state: json.dump and close; process_batch returns
SaveStateDump ==
    /\ pc = "save_dump"
    /\ stateFile' = <<state>>
    /\ recorded' = recorded \cup Range(new_events)
    /\ result' = ProcessResult(Len(new_events), TRUE)
    /\ pc' = "returned"
    /\ UNCHANGED <<srcVars, authVars, cursor, response, state, needs_dedup,
                   events, batchCursor, new_events, saverClosed, sends, failedSends,
                   pre, sinkCalls,
                   lastFlagCall, delivered, deliveredRun, crashBatch,
                   storeWritten, restarts, skipped>>

ProcessBatch ==
    \/ ProcessEmpty
    \/ ProcessSaveAll
    \/ ProcessDedupFound
    \/ ProcessDedupAtEnd
    \/ ProcessDedupNotFound
    \/ AddEventsOk
    \/ AddEventsFail
    \/ UpdateState
    \/ SaveStateOpen
    \/ SaveStateDump

\* Variant: reset_deduplication sets the flag instead of clearing it.
ResetDeduplicationSets ==
    /\ needs_dedup' = TRUE
    /\ lastFlagCall' = "reset"

\* EventProcessor.reset_deduplication
ResetDeduplication ==
    /\ needs_dedup' = FALSE
    /\ lastFlagCall' = "reset"

\* EventProcessor.enable_deduplication
EnableDeduplication ==
    /\ needs_dedup' = TRUE
    /\ lastFlagCall' = "enable"

-----------------------------------------------------------------------------
(* auth.py: AuthClient *)

\* No AuthClient call was made since the last fetch.
NoAuthCall ==
    [op |-> "none", exchanges |-> 0, ok |-> TRUE, token |-> 0, tokenFile |-> 0]

\* A call of ensure_valid_token or refresh_token: the exchanges it made,
\* whether the exchange succeeded, and the cached and persisted token at entry.
AuthCall(op, n, ok) ==
    [op |-> op, exchanges |-> n, ok |-> ok, token |-> token,
     tokenFile |-> tokenFile]

\* AuthClient.refresh_token, status 201: self._token = token; set_token(token)
\* opens token.txt for writing, which truncates it
ExchangeOk ==
    /\ issued < MaxTokens
    /\ issued' = issued + 1
    /\ liveToken' = issued + 1
    /\ token' = issued + 1
    /\ tokenFile' = 0

\* Variant: set_token closes the file without writing the token.
SetTokenWriteNothing == UNCHANGED <<tokenVars, authCall>>

\* StateManager.set_token: file.write(token) and close
SetTokenWrite ==
    /\ tokenFile' = token
    /\ UNCHANGED <<liveToken, issued, token, authCall>>

\* AuthClient.refresh_token, any other status or a network error: it raises
ExchangeFail == UNCHANGED tokenVars

-----------------------------------------------------------------------------
(* runner.py: PollingRunner.run *)

loopFrame == <<srcVars, response, engineVars, callVars, saverClosed, sends, failedSends,

               lastFlagCall, histVars, restarts, skipped>>

\* Variant: ensure_valid_token() exchanges a cached token that is stale.
EnsureCachedRefreshesStale ==
    /\ pc = "start"
    /\ token # 0
    /\ IF token = liveToken
       THEN /\ authCall' = AuthCall("ensure", 0, TRUE)
            /\ cursor' = state.cursor
            /\ pc' = "fetch"
            /\ UNCHANGED tokenVars
       ELSE /\ ExchangeOk
            /\ authCall' = AuthCall("ensure", 1, TRUE)
            /\ pc' = "ensure_write"
            /\ UNCHANGED cursor
    /\ UNCHANGED loopFrame

\* run: ensure_valid_token() finds a cached token; cursor = processor.cursor
EnsureCached ==
    /\ pc = "start"
    /\ token # 0
    /\ authCall' = AuthCall("ensure", 0, TRUE)
    /\ cursor' = state.cursor
    /\ pc' = "fetch"
    /\ UNCHANGED <<tokenVars, loopFrame>>

\* run: ensure_valid_token() has no token and the exchange succeeds
EnsureExchangeOk ==
    /\ pc = "start"
    /\ token = 0
    /\ ExchangeOk
    /\ authCall' = AuthCall("ensure", 1, TRUE)
    /\ pc' = "ensure_write"
    /\ UNCHANGED <<cursor, loopFrame>>

\* run: set_token writes the token, ensure_valid_token() returns;
\* cursor = processor.cursor
EnsureSetToken ==
    /\ pc = "ensure_write"
    /\ SetTokenWrite
    /\ cursor' = state.cursor
    /\ pc' = "fetch"
    /\ UNCHANGED loopFrame

\* run: ensure_valid_token() has no token and the exchange fails: the
\* exception leaves run()
EnsureExchangeFail ==
    /\ pc = "start"
    /\ token = 0
    /\ ExchangeFail
    /\ authCall' = AuthCall("ensure", 1, FALSE)
    /\ pc' = "raised"
    /\ UNCHANGED <<cursor, loopFrame>>

\* run: fetch_logs(cursor) answers 200; process_batch(response.events, cursor)
\* is entered
FetchOk ==
    /\ pc = "fetch"
    /\ token # 0
    /\ token = liveToken
    /\ response' = FetchPage(cursor, srcLen, srcEager)
    /\ events' = response'.events
    /\ batchCursor' = cursor
    /\ authCall' = NoAuthCall
    /\ pc' = "process"
    /\ UNCHANGED <<srcVars, tokenVars, cursor, engineVars, new_events, result,
                   pre, sinkCalls, saverClosed, sends, failedSends,
                   lastFlagCall, histVars,
                   restarts, skipped>>

\* run: fetch_logs answers 401: except TokenExpiredError
FetchTokenExpired ==
    /\ pc = "fetch"
    /\ token # liveToken
    /\ authCall' = NoAuthCall
    /\ pc' = "refresh"
    /\ UNCHANGED <<tokenVars, cursor, loopFrame>>

\* run: fetch_logs fails otherwise: except Exception, then asyncio.sleep
FetchError ==
    /\ pc = "fetch"
    /\ authCall' = NoAuthCall
    /\ pc' = "sleep_retry"
    /\ UNCHANGED <<tokenVars, cursor, loopFrame>>

\* Variant: after a refresh the loop sleeps poll_interval before it retries.
RefreshSetTokenThenSleep ==
    /\ pc = "refresh_write"
    /\ SetTokenWrite
    /\ pc' = "sleep_retry"
    /\ UNCHANGED <<cursor, loopFrame>>

\* run: the exchange of refresh_token() in the TokenExpiredError handler
\* succeeds
RefreshOk ==
    /\ pc = "refresh"
    /\ ExchangeOk
    /\ authCall' = AuthCall("refresh", 1, TRUE)
    /\ pc' = "refresh_write"
    /\ UNCHANGED <<cursor, loopFrame>>

\* run: set_token writes the token, refresh_token() returns; continue
RefreshSetToken ==
    /\ pc = "refresh_write"
    /\ SetTokenWrite
    /\ pc' = "fetch"
    /\ UNCHANGED <<cursor, loopFrame>>

\* run: refresh_token() in the TokenExpiredError handler raises: no handler
\* encloses it, so the exception leaves run()
RefreshFail ==
    /\ pc = "refresh"
    /\ ExchangeFail
    /\ authCall' = AuthCall("refresh", 1, FALSE)
    /\ pc' = "raised"
    /\ UNCHANGED <<cursor, loopFrame>>

\* Variant: after the retry sleep the loop goes back to the stored cursor.
RetryWakeStoredCursor ==
    /\ pc = "sleep_retry"
    /\ cursor' = state.cursor
    /\ pc' = "fetch"
    /\ UNCHANGED <<authVars, loopFrame>>

\* run: the retry sleep ends; continue
RetryWake ==
    /\ pc = "sleep_retry"
    /\ pc' = "fetch"
    /\ UNCHANGED <<authVars, cursor, loopFrame>>

\* The events this process has advanced past without delivering them: those
\* of the page just processed are added when its scan did not find the marker.
Skipped ==
    IF result = ProcessResult(0, FALSE)
    THEN skipped \cup Range(events)
    ELSE skipped

\* Variant: the loop sleeps before it fetches the next page.
PaginateNextSleeps ==
    /\ pc = "returned"
    /\ response.next_cursor # None
    /\ ResetDeduplication
    /\ cursor' = response.next_cursor
    /\ skipped' = Skipped
    /\ pc' = "sleep_retry"
    /\ UNCHANGED <<srcVars, authVars, response, state, stateFile, callVars,
                   saverClosed, sends, failedSends, histVars, restarts>>

\* Variant: the loop stays on a page whose scan did not find the marker.
PaginateNextUnlessNotFound ==
    /\ pc = "returned"
    /\ response.next_cursor # None
    /\ IF result = ProcessResult(0, FALSE)
       THEN /\ EnableDeduplication
            /\ pc' = "sleep_idle"
            /\ UNCHANGED <<cursor, skipped>>
       ELSE /\ ResetDeduplication
            /\ cursor' = response.next_cursor
            /\ skipped' = Skipped
            /\ pc' = "fetch"
    /\ UNCHANGED <<srcVars, authVars, response, state, stateFile, callVars,
                   saverClosed, sends, failedSends, histVars, restarts>>

\* run: `if response.next_cursor`: reset_deduplication(), cursor = next_cursor
PaginateNext ==
    /\ pc = "returned"
    /\ response.next_cursor # None
    /\ ResetDeduplication
    /\ cursor' = response.next_cursor
    /\ skipped' = Skipped
    /\ pc' = "fetch"
    /\ UNCHANGED <<srcVars, authVars, response, state, stateFile, callVars,
                   saverClosed, sends, failedSends, histVars, restarts>>

\* run: no next_cursor: enable_deduplication(), then asyncio.sleep
PaginateIdle ==
    /\ pc = "returned"
    /\ response.next_cursor = None
    /\ EnableDeduplication
    /\ pc' = "sleep_idle"
    /\ UNCHANGED <<srcVars, authVars, cursor, response, state, stateFile,
                   callVars, saverClosed, sends, failedSends,
                   histVars, restarts, skipped>>

\* Variant: after the idle sleep the loop goes back to the stored cursor.
IdleWakeStoredCursor ==
    /\ pc = "sleep_idle"
    /\ cursor' = state.cursor
    /\ pc' = "fetch"
    /\ UNCHANGED <<authVars, loopFrame>>

\* run: the idle sleep ends; next iteration
IdleWake ==
    /\ pc = "sleep_idle"
    /\ pc' = "fetch"
    /\ UNCHANGED <<authVars, cursor, loopFrame>>

-----------------------------------------------------------------------------
(* main.py *)

\* main: an exception left run(): except Exception logs it, finally closes
\* the saver, and the process exits
MainExcept ==
    /\ pc = "raised"
    /\ saverClosed' = saverClosed + 1
    /\ pc' = "stopped"
    /\ UNCHANGED <<srcVars, authVars, cursor, response, engineVars, callVars,
                   sends, failedSends,
                   lastFlagCall, histVars, restarts, skipped>>

\* run() is suspended in an await that can be cancelled: the auth exchange,
\* fetch_logs, asyncio.sleep, or a send() of HttpSaver.add_events.
AwaitPoint ==
    \/ pc \in {"fetch", "refresh", "sleep_retry", "sleep_idle", "deliver"}
    \/ pc = "start" /\ token = 0

\* run() is executing code without an await: process_batch up to add_events,
\* _update_state with save_state, set_token, the pagination branch.
SyncPoint ==
    pc \in {"process", "update", "save_open", "save_dump", "returned",
            "ensure_write", "refresh_write"}

\* asyncio cancels the main task (Ctrl+C): CancelledError is raised at the
\* await run() is suspended in and leaves run(). Inside HttpSaver.add_events
\* the sends made so far keep their results, and the event of the
\* interrupted send may have reached the endpoint.
Cancel ==
    /\ AwaitPoint
    /\ pc' = "cancelled"
    /\ IF pc = "deliver"
       THEN /\ \E k \in 1..Len(new_events) : \E acc \in SUBSET (1..k) :
                /\ sends' = SubSeq(SendResults(new_events, acc), 1, k - 1)
                /\ UNCHANGED failedSends
                /\ delivered' = delivered \cup {new_events[j] : j \in acc}
                /\ deliveredRun' =
                        deliveredRun \cup {new_events[j] : j \in acc}
            /\ sinkCalls' =
                    Append(sinkCalls, [events |-> new_events, ok |-> FALSE])
            /\ UNCHANGED <<events, batchCursor, new_events, result, pre,
                           recorded, crashBatch, storeWritten>>
       ELSE UNCHANGED <<callVars, sends, failedSends, histVars>>
    /\ UNCHANGED <<srcVars, authVars, cursor, response, engineVars,
                   saverClosed, lastFlagCall, restarts, skipped>>

\* KeyboardInterrupt is raised in the code run() is executing (Ctrl+C where
\* no handler defers it to the next await) and leaves run().
Interrupt ==
    /\ SyncPoint
    /\ pc' = "interrupted"
    /\ UNCHANGED <<srcVars, authVars, cursor, response, engineVars, callVars,
                   saverClosed, sends, failedSends,
                   lastFlagCall, histVars, restarts,
                   skipped>>

\* Variant: the saver is closed only in the KeyboardInterrupt handler.
MainCancelledNoClose ==
    /\ pc = "cancelled"
    /\ pc' = "exited"
    /\ UNCHANGED <<srcVars, authVars, cursor, response, engineVars, callVars,
                   saverClosed, sends, failedSends,
                   lastFlagCall, histVars, restarts,
                   skipped>>

\* main: CancelledError left run(): no except clause applies, finally closes
\* the saver, and the process exits
MainCancelled ==
    /\ pc = "cancelled"
    /\ saverClosed' = saverClosed + 1
    /\ pc' = "exited"
    /\ UNCHANGED <<srcVars, authVars, cursor, response, engineVars, callVars,
                   sends, failedSends,
                   lastFlagCall, histVars, restarts, skipped>>

\* main: except KeyboardInterrupt logs, finally closes the saver, and the
\* process exits
MainKeyboardInterrupt ==
    /\ pc = "interrupted"
    /\ saverClosed' = saverClosed + 1
    /\ pc' = "exited"
    /\ UNCHANGED <<srcVars, authVars, cursor, response, engineVars, callVars,
                   sends, failedSends,
                   lastFlagCall, histVars, restarts, skipped>>

\* The batch whose delivery returned and whose marker is not yet on disk.
PendingBatch ==
    IF pc \in {"update", "save_open", "save_dump"}
    THEN Range(new_events)
    ELSE crashBatch \ deliveredRun

\* The process is killed: everything in memory is lost, the files stay.
Crash ==
    /\ pc \notin {"crashed", "stopped", "exited"}
    /\ restarts < MaxRestarts
    /\ crashBatch' = PendingBatch
    /\ pc' = "crashed"
    /\ UNCHANGED <<srcVars, authVars, cursor, response, engineVars, callVars,
                   saverClosed, sends, failedSends,
                   lastFlagCall, delivered, deliveredRun,
                   recorded, storeWritten, restarts, skipped>>

\* Variant: a new engine never starts with the dedup scan.
InitialNeedsDedupNever(st) == FALSE

\* EventProcessor.__init__: self._needs_dedup
InitialNeedsDedup(st) == IsResumable(st)

\* main: a new process builds StateManager, AuthClient, the saver,
\* EventProcessor and PollingRunner, and enters run()
Restart ==
    /\ pc \in {"crashed", "stopped"}
    /\ restarts < MaxRestarts
    /\ restarts' = restarts + 1
    /\ token' = tokenFile
    /\ authCall' = NoAuthCall
    /\ state' = GetState(stateFile)
    /\ needs_dedup' = InitialNeedsDedup(GetState(stateFile))
    /\ cursor' = None
    /\ response' = NoResponse
    /\ events' = <<>>
    /\ batchCursor' = None
    /\ new_events' = <<>>
    /\ result' = <<>>
    /\ sinkCalls' = <<>>
    /\ pre' = [state |-> state', stateFile |-> stateFile,
               needs_dedup |-> needs_dedup']
    /\ lastFlagCall' = "init"
    /\ saverClosed' = 0
    /\ deliveredRun' = {}
    /\ storeWritten' = FALSE
    /\ skipped' = {}
    /\ sends' = <<>>
    /\ crashBatch' = IF pc = "stopped" THEN crashBatch \ deliveredRun
                     ELSE crashBatch
    /\ pc' = "start"
    /\ UNCHANGED <<srcVars, liveToken, issued, tokenFile, stateFile,
                   delivered, recorded, failedSends>>

-----------------------------------------------------------------------------
(* The environment *)

\* The source appends one event.
SourceAppend ==
    /\ srcLen < MaxEvents
    /\ srcLen' = srcLen + 1
    /\ UNCHANGED <<srcEager, authVars, pc, cursor, response, engineVars,
                   callVars, saverClosed, sends, failedSends,
                   lastFlagCall, histVars,
                   restarts, skipped>>

\* The auth server stops accepting the live token.
TokenExpire ==
    /\ liveToken # 0
    /\ issued < MaxTokens
    /\ liveToken' = 0
    /\ UNCHANGED <<srcVars, issued, token, tokenFile, authCall, pc, cursor,
                   response, engineVars, callVars, saverClosed, sends, failedSends,
                   lastFlagCall,
                   histVars, restarts, skipped>>

-----------------------------------------------------------------------------
(* The program *)

Init ==
    /\ srcLen \in 0..MaxEvents
    /\ srcEager \in BOOLEAN
    /\ liveToken = 0
    /\ issued = 0
    /\ token = 0
    /\ tokenFile = 0
    /\ authCall = NoAuthCall
    /\ pc = "start"
    /\ cursor = None
    /\ response = NoResponse
    /\ state = EmptyState
    /\ needs_dedup = InitialNeedsDedup(EmptyState)
    /\ stateFile = <<>>
    /\ events = <<>>
    /\ batchCursor = None
    /\ new_events = <<>>
    /\ result = <<>>
    /\ saverClosed = 0
    /\ pre = [state |-> EmptyState, stateFile |-> <<>>, needs_dedup |-> FALSE]
    /\ sinkCalls = <<>>
    /\ lastFlagCall = "init"
    /\ delivered = {}
    /\ deliveredRun = {}
    /\ recorded = {}
    /\ crashBatch = {}
    /\ storeWritten = FALSE
    /\ sends = <<>>
    /\ failedSends = <<>>
    /\ skipped = {}
    /\ restarts = 0

Run ==
    \/ EnsureCached
    \/ EnsureExchangeOk
    \/ EnsureSetToken
    \/ EnsureExchangeFail
    \/ FetchOk
    \/ FetchTokenExpired
    \/ FetchError
    \/ RefreshOk
    \/ RefreshSetToken
    \/ RefreshFail
    \/ RetryWake
    \/ PaginateNext
    \/ PaginateIdle
    \/ IdleWake

Next ==
    \/ Run
    \/ ProcessBatch
    \/ MainExcept
    \/ Crash
    \/ Restart
    \/ SourceAppend
    \/ TokenExpire

Spec == Init /\ [][Next]_vars

-----------------------------------------------------------------------------
(* The scheduling of the program: the single loop takes its next step      *)
(* whenever it has one, a stopped process is started again, and fetches,   *)
(* auth exchanges and deliveries that are tried again and again succeed.   *)

Step == Run \/ ProcessBatch \/ MainExcept \/ Restart

Fairness ==
    /\ WF_vars(Step)
    /\ SF_vars(FetchOk)
    /\ SF_vars(FetchTokenExpired)
    /\ SF_vars(EnsureExchangeOk)
    /\ SF_vars(RefreshOk)
    /\ SF_vars(AddEventsOk)

FairSpec == Init /\ [][Next]_vars /\ Fairness

-----------------------------------------------------------------------------
(* The program with graceful shutdown: besides being killed, the process   *)
(* can be told to stop (Ctrl+C), which reaches run() as a CancelledError   *)
(* at an await or as a KeyboardInterrupt in the code it is executing.      *)

ShutdownNext ==
    \/ Run
    \/ ProcessBatch
    \/ MainExcept
    \/ Crash
    \/ Restart
    \/ SourceAppend
    \/ TokenExpire
    \/ Cancel
    \/ Interrupt
    \/ MainCancelled
    \/ MainKeyboardInterrupt

ShutdownSpec == Init /\ [][ShutdownNext]_vars

-----------------------------------------------------------------------------
(* EventProcessor on its own: any engine a process can hold, any batch     *)

EventA == [event_id |-> 1, event_saved_time |-> 1]
EventB == [event_id |-> 1, event_saved_time |-> 2]
EventC == [event_id |-> 2, event_saved_time |-> 1]
UnitEvents == {EventA, EventB, EventC}
UnitCursors == {None, 1}

Batches == UNION {[1..n -> UnitEvents] : n \in 0..MaxBatch}

\* Engine states: no marker (and then no cursor), or a marker with a cursor.
UnitStates ==
    {EmptyState} \cup {NewState(e, c) : e \in UnitEvents, c \in UnitCursors}

Idle == pc = "ready"

unitFrame == <<srcVars, authVars, cursor, response, saverClosed, crashBatch,
               restarts, skipped>>

UnitInit ==
    /\ srcLen = 0
    /\ srcEager = FALSE
    /\ liveToken = 0
    /\ issued = 0
    /\ token = 0
    /\ tokenFile = 0
    /\ authCall = NoAuthCall
    /\ pc = "ready"
    /\ cursor = None
    /\ response = NoResponse
    /\ state \in UnitStates
    /\ needs_dedup = InitialNeedsDedup(state)
    /\ stateFile = IF state = EmptyState THEN <<>> ELSE <<state>>
    /\ events = <<>>
    /\ batchCursor = None
    /\ new_events = <<>>
    /\ result = <<>>
    /\ saverClosed = 0
    /\ pre = Snapshot
    /\ sinkCalls = <<>>
    /\ lastFlagCall = "init"
    /\ delivered = {}
    /\ deliveredRun = {}
    /\ recorded = {}
    /\ crashBatch = {}
    /\ storeWritten = FALSE
    /\ sends = <<>>
    /\ failedSends = <<>>
    /\ skipped = {}
    /\ restarts = 0

\* A caller calls process_batch(evs, c).
UnitCall ==
    /\ Idle
    /\ \E evs \in Batches, c \in UnitCursors :
        /\ events' = evs
        /\ batchCursor' = c
    /\ new_events' = <<>>
    /\ result' = <<>>
    /\ sinkCalls' = <<>>
    /\ sends' = <<>>
    /\ failedSends' = <<>>
    /\ pre' = Snapshot
    /\ delivered' = {}
    /\ deliveredRun' = {}
    /\ pc' = "process"
    /\ UNCHANGED <<unitFrame, engineVars, lastFlagCall, recorded,
                   storeWritten>>

\* Between calls nothing of the last call is kept.
BetweenCalls ==
    /\ events' = <<>>
    /\ batchCursor' = None
    /\ new_events' = <<>>
    /\ result' = <<>>
    /\ sinkCalls' = <<>>
    /\ sends' = <<>>
    /\ failedSends' = <<>>
    /\ pre' = [state |-> state', stateFile |-> stateFile',
               needs_dedup |-> needs_dedup']
    /\ delivered' = {}
    /\ deliveredRun' = {}
    /\ pc' = "ready"

\* process_batch has returned or raised and the caller goes on.
UnitDone ==
    /\ pc \in {"returned", "raised"}
    /\ UNCHANGED <<unitFrame, engineVars, lastFlagCall, recorded,
                   storeWritten>>
    /\ BetweenCalls

\* A caller calls reset_deduplication().
UnitReset ==
    /\ Idle
    /\ ResetDeduplication
    /\ recorded' = {}
    /\ UNCHANGED <<unitFrame, state, stateFile, storeWritten>>
    /\ BetweenCalls

\* A caller calls enable_deduplication().
UnitEnable ==
    /\ Idle
    /\ EnableDeduplication
    /\ recorded' = {}
    /\ UNCHANGED <<unitFrame, state, stateFile, storeWritten>>
    /\ BetweenCalls

\* EventProcessor.__init__: a new engine is built on the same state store.
UnitRebuild ==
    /\ Idle
    /\ state' = GetState(stateFile)
    /\ needs_dedup' = InitialNeedsDedup(GetState(stateFile))
    /\ lastFlagCall' = "init"
    /\ storeWritten' = FALSE
    /\ UNCHANGED <<unitFrame, stateFile, recorded>>
    /\ BetweenCalls

UnitNext ==
    \/ UnitCall
    \/ UnitDone
    \/ UnitReset
    \/ UnitEnable
    \/ UnitRebuild
    \/ ProcessBatch

UnitSpec == UnitInit /\ [][UnitNext]_vars

-----------------------------------------------------------------------------
(* Properties *)

\* process_batch has been entered and `pre` is the state at its entry.
InCall == pc \in {"deliver", "update", "save_open", "save_dump", "returned",
                  "raised"}

SinkCall(evs, ok) == [events |-> evs, ok |-> ok]

LastOf(evs) == evs[Len(evs)]

\* The marker of st is the composite key of e.
KeyIs(st, e) ==
    st.event_id = e.event_id /\ st.event_saved_time = e.event_saved_time

\* The add_events call of the current process_batch call failed.
DeliveryFailed == sinkCalls # <<>> /\ ~sinkCalls[Len(sinkCalls)].ok

\* i is the first position of evs whose event has both the event_id and the
\* event_saved_time of the marker of st.
FirstKeyMatchAt(st, evs, i) ==
    /\ i \in 1..Len(evs)
    /\ evs[i].event_id = st.event_id
    /\ evs[i].event_saved_time = st.event_saved_time
    /\ \A j \in 1..(i - 1) :
        ~(evs[j].event_id = st.event_id
            /\ evs[j].event_saved_time = st.event_saved_time)

NoKeyMatch(st, evs) ==
    \A j \in 1..Len(evs) :
        ~(evs[j].event_id = st.event_id
            /\ evs[j].event_saved_time = st.event_saved_time)

Unchanged == state = pre.state /\ stateFile = pre.stateFile

\* C1: the marker, in memory and on disk, changes only in a step of
\* process_batch that follows a successful add_events of that call's batch;
\* after a failed add_events the in-memory EventState and the persisted
\* marker and cursor are what they were when process_batch was entered.
C1_MarkerOnlyAfterDelivery ==
    /\ [](DeliveryFailed =>
            state = pre.state /\ stateFile = pre.stateFile)
    /\ [][((state' # state \/ stateFile' # stateFile) /\ pc' # "start") =>
            /\ pc \in {"update", "save_open", "save_dump"}
            /\ sinkCalls = <<SinkCall(new_events, TRUE)>>
            /\ Range(new_events) \subseteq delivered]_vars

\* C1 witness: add_events failed after accepting part of a batch while a
\* marker was set, and the exception has left process_batch.
C1_Witness ==
    /\ pc = "raised"
    /\ DeliveryFailed
    /\ IsResumable(pre.state)
    /\ deliveredRun # {}
    /\ stateFile = <<state>>

\* C2: a batch whose delivery returned but whose marker was not persisted
\* when the process was terminated is delivered again in full by the
\* restarted process before that process goes idle at the live edge.
C2_RedeliveredAfterRestart ==
    pc = "sleep_idle" => crashBatch \subseteq deliveredRun

\* C2 witness: the process was killed between add_events and save_state of
\* a batch found by the dedup scan, and the restarted process has delivered
\* that batch again and gone idle.
C2_Witness ==
    /\ pc = "sleep_idle"
    /\ restarts > 0
    /\ crashBatch # {}
    /\ crashBatch \subseteq deliveredRun
    /\ Len(new_events) < Len(events)

\* C3: no event of a batch whose marker was persisted is handed to the sink
\* again, and the events a run delivered without persisting a marker for
\* them (those a restart delivers again) all belong to one batch.
C3_AtMostOneBatchAgain ==
    pc = "deliver" =>
        /\ Range(new_events) \cap recorded = {}
        /\ (deliveredRun \ recorded) \subseteq Range(new_events)

\* C4: every event the source exposes is eventually delivered to the sink,
\* as long as the process is kept running.
C4_NoEventLost ==
    \A i \in 1..MaxEvents :
        (srcLen >= i) ~> (SourceEvent(i) \in delivered
                            \/ pc \in {"stopped", "crashed"})

\* C5: when process_batch is called with a non-empty batch while the marker
\* is unset, every event of the batch is handed to the sink and, once the
\* call returns, the marker is the last event of the batch; equivalently
\* the DedupFlag is never true while the marker is unset.
C5_UnsetMarkerSavesAll ==
    /\ (InCall /\ events # <<>> /\ ~IsResumable(pre.state)) =>
            /\ pc # "deliver" => sinkCalls # <<>> /\ sinkCalls[1].events = events
            /\ pc = "returned" => KeyIs(state, LastOf(events))
    /\ needs_dedup => IsResumable(state)

\* C6: with DedupFlag=true and the first event equal to the marker in both
\* event_id and event_saved_time at position i before the last one,
\* process_batch hands exactly the events after i, in order, to the sink in
\* one add_events call, and on return the marker is the last event of the
\* full batch, persisted with the given cursor, and the result is
\* saved_count = number of events after i, found_last_event = true.
C6_SuffixAfterMarker ==
    \A i \in 1..(Len(events) - 1) :
        (InCall /\ pre.needs_dedup /\ FirstKeyMatchAt(pre.state, events, i)) =>
            /\ new_events = SubSeq(events, i + 1, Len(events))
            /\ pc = "deliver" => sinkCalls = <<>>
            /\ pc = "raised" => sinkCalls = <<SinkCall(new_events, FALSE)>>
            /\ pc \in {"update", "save_open", "save_dump", "returned"} =>
                    sinkCalls = <<SinkCall(new_events, TRUE)>>
            /\ pc = "returned" =>
                    /\ state = [event_id |-> LastOf(events).event_id,
                                event_saved_time |->
                                    LastOf(events).event_saved_time,
                                cursor |-> batchCursor]
                    /\ stateFile = <<state>>
                    /\ result = ProcessResult(Len(events) - i, TRUE)

\* C6 witness: the batch starts with an event that has only the marker's
\* event_id, the marker itself is second, and the call has returned after
\* delivering the events behind it with another cursor than the stored one.
C6_Witness ==
    /\ pc = "returned"
    /\ pre.needs_dedup
    /\ Len(events) >= 3
    /\ FirstKeyMatchAt(pre.state, events, 2)
    /\ events[1].event_id = pre.state.event_id
    /\ batchCursor # pre.state.cursor
    /\ result = ProcessResult(Len(events) - 2, TRUE)

\* C7 as stated: an engine built from the persisted state, given a page
\* whose last event is the persisted marker, returns saved_count=0,
\* found_last_event=true, calls no sink and changes nothing.
C7_IdempotentResume ==
    (/\ InCall
     /\ lastFlagCall = "init"
     /\ ~storeWritten
     /\ events # <<>>
     /\ IsResumable(pre.state)
     /\ pre.stateFile = <<pre.state>>
     /\ KeyIs(pre.state, LastOf(events))) =>
        /\ pc = "returned"
        /\ result = ProcessResult(0, TRUE)
        /\ sinkCalls = <<>>
        /\ Unchanged

\* C7 amended: the same, for a page in which no event before the last one
\* has the composite key of the last one.
C7_IdempotentResumeUniqueLast ==
    (/\ InCall
     /\ lastFlagCall = "init"
     /\ ~storeWritten
     /\ events # <<>>
     /\ IsResumable(pre.state)
     /\ pre.stateFile = <<pre.state>>
     /\ FirstKeyMatchAt(pre.state, events, Len(events))) =>
        /\ pc = "returned"
        /\ result = ProcessResult(0, TRUE)
        /\ sinkCalls = <<>>
        /\ Unchanged
        /\ needs_dedup = pre.needs_dedup

\* C7 witness: the page was delivered and recorded, the engine was built
\* again from the store, and the replay of the page has returned.
C7_Witness ==
    /\ pc = "returned"
    /\ lastFlagCall = "init"
    /\ ~storeWritten
    /\ Len(events) >= 2
    /\ Range(events) \subseteq recorded
    /\ pre.stateFile = <<pre.state>>
    /\ FirstKeyMatchAt(pre.state, events, Len(events))
    /\ batchCursor = pre.state.cursor
    /\ result = ProcessResult(0, TRUE)

\* C8: with DedupFlag=true and no event of a non-empty batch equal to the
\* marker, process_batch returns saved_count=0, found_last_event=false,
\* calls no sink and leaves the EventState, the store and the flag alone.
C8_NotFoundChangesNothing ==
    (InCall /\ pre.needs_dedup /\ events # <<>>
        /\ NoKeyMatch(pre.state, events)) =>
        /\ pc = "returned"
        /\ result = ProcessResult(0, FALSE)
        /\ sinkCalls = <<>>
        /\ delivered = {}
        /\ Unchanged
        /\ needs_dedup = pre.needs_dedup

\* C8 witness: a set marker, a batch whose events share its event_id or its
\* event_saved_time but never both, and the call has returned.
C8_Witness ==
    /\ pc = "returned"
    /\ pre.needs_dedup
    /\ IsResumable(pre.state)
    /\ Len(events) >= 2
    /\ NoKeyMatch(pre.state, events)
    /\ \E j \in 1..Len(events) : events[j].event_id = pre.state.event_id
    /\ \E j \in 1..Len(events) :
            events[j].event_saved_time = pre.state.event_saved_time

\* C9: process_batch([], cursor) returns saved_count=0,
\* found_last_event=true, calls no sink and changes neither the marker nor
\* the persisted cursor nor the flag, whatever the flag, marker and cursor.
C9_EmptyBatchNoOp ==
    (InCall /\ events = <<>>) =>
        /\ pc = "returned"
        /\ result = ProcessResult(0, TRUE)
        /\ sinkCalls = <<>>
        /\ delivered = {}
        /\ Unchanged
        /\ needs_dedup = pre.needs_dedup

\* C9 witness: an empty batch came with another cursor than the persisted
\* one while a marker was set and the flag was false.
C9_Witness ==
    /\ pc = "returned"
    /\ events = <<>>
    /\ result # <<>>
    /\ IsResumable(pre.state)
    /\ ~pre.needs_dedup
    /\ batchCursor # pre.state.cursor

\* C10: after reset_deduplication() process_batch hands every event of a
\* non-empty batch to the sink and on return the marker is its last event;
\* after enable_deduplication() it scans for the marker and hands over only
\* the events after the first match, or none; process_batch never changes
\* the flag.
C10_FlagTransitions ==
    /\ (InCall /\ lastFlagCall = "reset" /\ events # <<>>) =>
            /\ pc # "returned" \/ sinkCalls = <<SinkCall(events, TRUE)>>
            /\ pc # "raised" \/ sinkCalls = <<SinkCall(events, FALSE)>>
            /\ pc \notin {"deliver", "update", "save_open", "save_dump"}
                    \/ new_events = events
            /\ pc = "returned" =>
                    /\ KeyIs(state, LastOf(events))
                    /\ stateFile = <<state>>
                    /\ result = ProcessResult(Len(events), TRUE)
    /\ (InCall /\ lastFlagCall = "enable" /\ events # <<>>) =>
            \/ /\ NoKeyMatch(pre.state, events)
               /\ sinkCalls = <<>>
               /\ pc = "returned"
            \/ /\ FirstKeyMatchAt(pre.state, events, Len(events))
               /\ sinkCalls = <<>>
               /\ pc = "returned"
            \/ \E i \in 1..(Len(events) - 1) :
                /\ FirstKeyMatchAt(pre.state, events, i)
                /\ new_events = SubSeq(events, i + 1, Len(events))
                /\ \A k \in 1..Len(sinkCalls) :
                        sinkCalls[k].events = new_events
    /\ InCall => needs_dedup = pre.needs_dedup
    /\ lastFlagCall = "reset" => ~needs_dedup
    /\ lastFlagCall = "enable" => needs_dedup

\* C10 witness: after reset_deduplication() a batch that contains the
\* marker in its middle was delivered in full.
C10_Witness ==
    /\ pc = "returned"
    /\ lastFlagCall = "reset"
    /\ Len(events) >= 3
    /\ FirstKeyMatchAt(pre.state, events, 2)
    /\ sinkCalls = <<SinkCall(events, TRUE)>>

-----------------------------------------------------------------------------
(* Properties of the poll loop and of the auth provider *)

\* The add_events call that this step made failed.
SinkFailsNow ==
    /\ pc = "deliver"
    /\ sinkCalls' # sinkCalls
    /\ ~sinkCalls'[Len(sinkCalls')].ok

\* C11: run() is never left by an exception: neither a fetch failure, nor an
\* authentication failure at startup or on refresh, nor a delivery failure
\* makes the poll loop terminate.
C11_RunNeverRaises == pc \notin {"raised", "stopped"}

\* C12: when refresh_token() fails in the TokenExpiredError handler, the
\* loop goes to its retry sleep with the same cursor and with the marker,
\* the store and the DedupFlag unchanged.
C12_RefreshFailureRetries ==
    [][(pc = "refresh" /\ authCall'.op = "refresh" /\ ~authCall'.ok) =>
            /\ pc' = "sleep_retry"
            /\ cursor' = cursor
            /\ UNCHANGED engineVars]_vars

\* C13: when add_events fails for a batch, the loop goes to its retry sleep
\* with the same cursor and the marker not advanced (from where the same
\* page is fetched and offered to the sink again).
C13_SinkFailureRetries ==
    [][SinkFailsNow =>
            /\ pc' = "sleep_retry"
            /\ cursor' = cursor
            /\ UNCHANGED engineVars]_vars

\* The loop is handling a 401: between the failed fetch and the return of
\* refresh_token().
Refreshing(p) == p \in {"refresh", "refresh_write"}

\* C14: a fetch that fails with a 401 is followed by refresh_token() and,
\* once the refresh has succeeded, by a fetch with the same cursor and no
\* sleep; from the failed fetch to the retry the cursor, the marker, the
\* persisted state and the DedupFlag do not change, and process_batch is not
\* called.
C14_ExpiryRefreshRetry ==
    [][(Refreshing(pc) \/ Refreshing(pc')) =>
            /\ pc \in {"fetch", "refresh", "refresh_write"}
            /\ pc' \in {"refresh", "refresh_write", "fetch", "raised",
                         "crashed"}
            /\ (pc = "refresh" /\ token' # token) => pc' = "refresh_write"
            /\ (pc = "refresh_write" /\ pc' \notin {"refresh_write", "crashed"})
                    => pc' = "fetch"
            /\ cursor' = cursor
            /\ UNCHANGED <<engineVars, callVars, lastFlagCall, delivered>>]_vars

\* C14 witness: in the middle of a catch-up with a marker set, a fetch was
\* rejected, the refresh succeeded and the loop is about to fetch again.
C14_Witness ==
    /\ pc = "fetch"
    /\ authCall.op = "refresh"
    /\ authCall.ok
    /\ authCall.token # 0
    /\ token = liveToken
    /\ IsResumable(state)
    /\ cursor # None
    /\ cursor # state.cursor

\* C15: a fetch that fails with another error than a 401 is followed by the
\* retry sleep and then by a fetch with the same cursor; a retry is possible
\* at every fetch; no auth exchange is made and the token, the marker, the
\* persisted state and the DedupFlag do not change.
C15_FetchErrorRetries ==
    /\ [](pc = "fetch" => ENABLED FetchError)
    /\ [][(pc = "sleep_retry" \/ pc' = "sleep_retry") =>
            /\ pc \in {"fetch", "sleep_retry"}
            /\ pc' \in {"sleep_retry", "fetch", "crashed"}
            /\ cursor' = cursor
            /\ authCall'.op = "none"
            /\ UNCHANGED <<engineVars, token, tokenFile, issued, callVars,
                           lastFlagCall, delivered>>]_vars

\* C15 witness: the fetch of a later page failed while the cached token was
\* stale, and the loop is in its retry sleep.
C15_Witness ==
    /\ pc = "sleep_retry"
    /\ token # liveToken
    /\ IsResumable(state)
    /\ cursor # state.cursor

\* The loop acts on the page that process_batch has returned from.
Paginates == pc = "returned" /\ pc' \notin {"returned", "crashed"}

\* C16: after a page with a next_cursor was processed, the loop calls
\* reset_deduplication(), sets its cursor to next_cursor and goes to the
\* next fetch without a sleep, the marker untouched; a page fetched after
\* that is processed with DedupFlag=false, so all of it goes to the sink.
C16_NextCursorAdvances ==
    /\ [][(Paginates /\ response.next_cursor # None) =>
            /\ pc' = "fetch"
            /\ cursor' = response.next_cursor
            /\ lastFlagCall' = "reset"
            /\ ~needs_dedup'
            /\ UNCHANGED <<state, stateFile, delivered>>]_vars
    /\ []((pc \in {"process", "deliver"} /\ lastFlagCall = "reset") =>
            /\ ~needs_dedup
            /\ batchCursor = cursor
            /\ pc = "deliver" => new_events = events)

\* C16 witness: the second page of a catch-up burst, which does not hold
\* the marker, is being handed to the sink in full.
C16_Witness ==
    /\ pc = "deliver"
    /\ lastFlagCall = "reset"
    /\ batchCursor # None
    /\ IsResumable(state)
    /\ NoKeyMatch(state, events)
    /\ new_events = events

\* C17: after a page without next_cursor was processed, the loop calls
\* enable_deduplication() and sleeps; when the sleep ends it fetches with
\* the unchanged cursor, and the page fetched is processed with
\* DedupFlag=true.
C17_NoNextCursorIdles ==
    /\ [][(Paginates /\ response.next_cursor = None) =>
            /\ pc' = "sleep_idle"
            /\ cursor' = cursor
            /\ lastFlagCall' = "enable"
            /\ needs_dedup'
            /\ UNCHANGED <<state, stateFile, delivered>>]_vars
    /\ [][(pc = "sleep_idle" /\ pc' \notin {"sleep_idle", "crashed"}) =>
            /\ pc' = "fetch"
            /\ cursor' = cursor
            /\ UNCHANGED <<engineVars, lastFlagCall, delivered>>]_vars
    /\ []((pc = "process" /\ lastFlagCall = "enable") =>
            /\ needs_dedup
            /\ batchCursor = cursor)

\* C17 witness: after an idle wait at a cursor other than the stored one,
\* a non-empty page is about to be processed with the flag set.
C17_Witness ==
    /\ pc = "process"
    /\ lastFlagCall = "enable"
    /\ needs_dedup
    /\ events # <<>>
    /\ IsResumable(state)
    /\ batchCursor # state.cursor

\* set_token is writing token.txt, or the process is dead.
TokenInFlux == pc \in {"ensure_write", "refresh_write", "crashed"}

\* C18: ensure_valid_token() makes an auth exchange exactly when the cached
\* token is empty; with a cached token, stale or not, it makes no exchange,
\* returns with the token unchanged and writes neither token.txt nor
\* last_event.txt.
C18_EnsureExchangesIffEmpty ==
    [][(pc = "start" /\ pc' \notin {"start", "crashed"}) =>
            /\ authCall'.op = "ensure"
            /\ (authCall'.exchanges = 1) <=> (token = 0)
            /\ (authCall'.exchanges = 0) <=> (token # 0)
            /\ token # 0 =>
                    /\ pc' = "fetch"
                    /\ UNCHANGED <<token, tokenFile, issued, liveToken,
                                   stateFile>>
            /\ token = 0 =>
                    \/ issued' = issued + 1 /\ token' = issued'
                    \/ pc' = "raised" /\ UNCHANGED tokenVars]_vars

\* C18 witness: a process started with a token in token.txt that the server
\* no longer accepts, and ensure_valid_token() returned it as it was.
C18_Witness ==
    /\ pc = "fetch"
    /\ authCall.op = "ensure"
    /\ authCall.exchanges = 0
    /\ token # 0
    /\ token # liveToken
    /\ token = authCall.token
    /\ tokenFile = authCall.tokenFile

C20_StateEqualsPersistedAtFetch ==
    /\ [](pc = "fetch" =>
            \/ stateFile = <<state>>
            \/ stateFile = <<>> /\ state = EmptyState)
    /\ [][(state' # state /\ pc' # "start") =>
            /\ pc = "update"
            /\ sinkCalls = <<SinkCall(new_events, TRUE)>>]_vars

\* C20 witness: a fetch is about to be issued after this process stored a
\* marker with a cursor, the loop cursor being a later one.
C20_Witness ==
    /\ pc = "fetch"
    /\ storeWritten
    /\ stateFile = <<state>>
    /\ state.cursor # None
    /\ cursor # state.cursor

-----------------------------------------------------------------------------
(* Properties of the shutdown *)

\* run() has been left on a request to stop.
ShutDown == pc \in {"cancelled", "interrupted", "exited"}

\* C21: the idle sleep and the retry sleep can be cancelled; once the
\* request to stop has reached run(), no fetch, auth exchange or delivery
\* follows; and last_event.txt then holds what it held when the last
\* process_batch call was entered, or the marker of the batch that call
\* delivered in full.
C21_CancellationSafe ==
    /\ [](pc \in {"sleep_idle", "sleep_retry"} => ENABLED Cancel)
    /\ [][ShutDown =>
            /\ pc' \in {"cancelled", "interrupted", "exited", "crashed"}
            /\ UNCHANGED <<response, issued, token, tokenFile, authCall,
                           engineVars, sinkCalls, sends, delivered>>]_vars
    /\ [](ShutDown =>
            \/ stateFile = pre.stateFile
            \/ /\ new_events # <<>>
               /\ sinkCalls = <<SinkCall(new_events, TRUE)>>
               /\ Range(new_events) \subseteq delivered
               /\ stateFile = <<state>>
               /\ state.event_id = LastOf(new_events).event_id
               /\ state.event_saved_time =
                      LastOf(new_events).event_saved_time)

\* C22: however run() is left (CancelledError, KeyboardInterrupt, another
\* exception), main closes the saver, once: close() has been called once
\* when the process has exited and not before run() was left, and no
\* add_events call follows it.
C22_CloseExactlyOnce ==
    /\ [](pc \in {"stopped", "exited"} <=> saverClosed = 1)
    /\ [](saverClosed \in {0, 1})
    /\ [][(pc \in {"raised", "cancelled", "interrupted"}
            /\ pc' \notin {pc, "crashed"}) =>
            /\ pc' \in {"stopped", "exited"}
            /\ saverClosed' = saverClosed + 1]_vars
    /\ [][(saverClosed > 0 /\ pc' # "start") =>
            UNCHANGED <<sinkCalls, sends, delivered>>]_vars

\* C22 witness: the task was cancelled inside add_events after part of the
\* batch had been accepted, and the process has exited.
C22_Witness ==
    /\ pc = "exited"
    /\ saverClosed = 1
    /\ DeliveryFailed
    /\ deliveredRun # {}
    /\ Len(sends) < Len(new_events)

-----------------------------------------------------------------------------
(* Properties of the sinks *)

\* The events a sequence of send() results reports as accepted.
Accepted(ss) == {ss[j].event : j \in {k \in 1..Len(ss) : ss[k].ok}}

\* Some send() of the sequence failed.
SomeSendFailed(ss) == \E j \in 1..Len(ss) : ~ss[j].ok

\* C23: add_events of the syslog and HTTP sinks calls send() for every
\* event of the batch, in the order of the batch, also after a send()
\* failed, and raises exactly when a send() failed; the receiver keeps what
\* it accepted, the marker stays as it was, and a later add_events call that
\* is given an event of the failed batch is given every accepted event of
\* that batch again.
C23_EveryEventAttempted ==
    /\ [][(pc = "deliver" /\ pc' \in {"update", "raised"}) =>
            /\ Len(sends') = Len(new_events)
            /\ \A j \in 1..Len(new_events) : sends'[j].event = new_events[j]
            /\ (pc' = "raised") <=> SomeSendFailed(sends')
            /\ LastOf(sinkCalls').ok <=> ~SomeSendFailed(sends')
            /\ Accepted(sends') \subseteq delivered'
            /\ (pc' = "raised") => UNCHANGED <<state, stateFile>>]_vars
    /\ [][(pc = "deliver" /\ pc' = "raised") => failedSends' = sends']_vars
    /\ [](pc = "deliver"
            /\ Range(new_events) \cap {failedSends[j].event :
                                         j \in 1..Len(failedSends)} # {} =>
            Accepted(failedSends) \subseteq Range(new_events))

\* C23 witness: in an add_events call that raised the first send() failed
\* and the second was accepted; a later process is about to deliver a batch
\* that holds the accepted event again.
C23_Witness ==
    /\ pc = "deliver"
    /\ restarts > 0
    /\ Len(failedSends) >= 2
    /\ ~failedSends[1].ok
    /\ failedSends[2].ok
    /\ failedSends[2].event \in delivered
    /\ failedSends[2].event \in Range(new_events)

-----------------------------------------------------------------------------
(* Properties of the cursor *)

\* C24: the loop does not look at what process_batch returned: after a scan
\* that did not find the marker (found_last_event=false) on a page with a
\* next_cursor it calls reset_deduplication() and fetches at next_cursor
\* like after any other page, with nothing delivered or recorded; the page
\* fetched next goes to the sink whole, and no event of a page passed this
\* way is delivered by this process.
C24_NotFoundIgnored ==
    /\ [][(/\ Paginates
           /\ result # <<>>
           /\ ~result[1].found_last_event
           /\ response.next_cursor # None) =>
            /\ pc' = "fetch"
            /\ cursor' = response.next_cursor
            /\ ~needs_dedup'
            /\ lastFlagCall' = "reset"
            /\ Range(events) \subseteq skipped'
            /\ sinkCalls = <<>>
            /\ UNCHANGED <<state, stateFile, delivered>>]_vars
    /\ [](skipped \cap deliveredRun = {})
    /\ []((pc = "deliver" /\ skipped # {} /\ lastFlagCall = "reset") =>
            new_events = events)

\* C24 witness: a page was passed after a scan that did not find the
\* marker, and the page after it has been delivered whole.
C24_Witness ==
    /\ pc = "update"
    /\ skipped # {}
    /\ lastFlagCall = "reset"
    /\ new_events = events
    /\ Range(events) \subseteq deliveredRun
    /\ skipped \cap delivered = {}

\* The position of an event in the source.
SourceIndex(e) == CHOOSE i \in 1..MaxEvents : SourceEvent(i) = e

\* C25: within one process, every batch add_events accepts is in source
\* order and lies after every event the process delivered before: no event
\* goes to the sink twice and none after a later one.
C25_DeliveriesIncrease ==
    [][(pc = "deliver" /\ pc' = "update") =>
        /\ LastOf(sinkCalls') = SinkCall(new_events, TRUE)
        /\ \A j, k \in 1..Len(new_events) :
              j < k => SourceIndex(new_events[j]) < SourceIndex(new_events[k])
        /\ \A e \in deliveredRun : \A j \in 1..Len(new_events) :
              SourceIndex(e) < SourceIndex(new_events[j])]_vars

\* C25 witness: a process that has delivered more than the page it is on,
\* and gone idle since, has delivered the new tail of the page it fetched
\* again.
C25_Witness ==
    /\ pc = "update"
    /\ lastFlagCall = "enable"
    /\ new_events # <<>>
    /\ Len(new_events) < Len(events)
    /\ Cardinality(deliveredRun) > Len(events)
    /\ issued > 1

\* The marker of st is the key of an event of evs.
HoldsMarker(st, evs) ==
    \E j \in 1..Len(evs) :
        /\ evs[j].event_id = st.event_id
        /\ evs[j].event_saved_time = st.event_saved_time

\* C26: _update_state stores the key of the last event of the page together
\* with the cursor that page was fetched with; so the page the source
\* serves for the cursor in last_event.txt holds the marker in
\* last_event.txt, and the first page a process fetches when it resumes is
\* fetched at that cursor and holds the marker.
C26_PersistedCursorIsFetchCursor ==
    /\ [][(pc = "update" /\ pc' = "save_open") =>
            /\ events = response.events
            /\ state'.cursor = cursor
            /\ state'.event_id = LastOf(events).event_id
            /\ state'.event_saved_time = LastOf(events).event_saved_time]_vars
    /\ []((stateFile # <<>> /\ stateFile[1].event_id # None) =>
            HoldsMarker(stateFile[1],
                        PageEvents(stateFile[1].cursor, srcLen)))
    /\ []((pc = "process" /\ lastFlagCall = "init" /\ needs_dedup) =>
            /\ cursor = state.cursor
            /\ stateFile = <<state>>
            /\ HoldsMarker(state, events))

\* C26 witness: a process that resumed from a marker recorded on a later,
\* full page has fetched its first page, at the stored cursor, and the page
\* holds the marker.
C26_Witness ==
    /\ pc = "process"
    /\ restarts > 0
    /\ lastFlagCall = "init"
    /\ needs_dedup
    /\ state.cursor # None
    /\ cursor = state.cursor
    /\ response.next_cursor # None
    /\ HoldsMarker(state, events)

\* C27: a page that is about to be scanned for the marker (DedupFlag=true)
\* was fetched at the cursor the engine holds and has persisted, so it is
\* the page the marker was recorded in.
C27_DedupFetchAtPersistedCursor ==
    (pc = "process" /\ needs_dedup) =>
        /\ cursor = state.cursor
        /\ (IsResumable(state) => HoldsMarker(state, events))

====
